---------------------------- MODULE Spec2Model ----------------------------
(***************************************************************************)
(* A model of kubookrecs_bot_live_log.py: catalog loading, preference      *)
(* extraction, scoring, selection, rendering and the posting loop.         *)
(*                                                                         *)
(* A Python str is a sequence of one-character strings, so that `in`,      *)
(* lower(), strip(), split() and the regular expressions are computed on   *)
(* the characters.  An optional value (None or v) is <<>> or <<v>>.        *)
(***************************************************************************)
EXTENDS Integers, Sequences, FiniteSets

\* ------------------------------------------------------------------------
\* Python str primitives
\* ------------------------------------------------------------------------

NoneVal == <<>>

Some(v) == <<v>>

UpperLetters == <<"A","B","C","D","E","F","G","H","I","J","K","L","M","N","O","P","Q","R","S","T","U","V","W","X","Y","Z">>

LowerLetters == <<"a","b","c","d","e","f","g","h","i","j","k","l","m","n","o","p","q","r","s","t","u","v","w","x","y","z">>

Digits == <<"0","1","2","3","4","5","6","7","8","9">>

ToLower == [c \in {UpperLetters[i] : i \in 1..26} |->
              LowerLetters[CHOOSE i \in 1..26 : UpperLetters[i] = c]]

DigitValue == [c \in {Digits[i] : i \in 1..10} |->
                 (CHOOSE i \in 1..10 : Digits[i] = c) - 1]

\* \w of the re module, on the characters the model uses
WordChars == {UpperLetters[i] : i \in 1..26} \cup {LowerLetters[i] : i \in 1..26}
               \cup DOMAIN DigitValue \cup {"_"}

\* \s of the re module, and what str.strip() and str.split() cut at
Whitespace == {" ", "\n", "\t", "\r", "\f"}

LowerChar(c) == IF c \in DOMAIN ToLower THEN ToLower[c] ELSE c

\* str.lower()
Lower(s) == [i \in 1..Len(s) |-> LowerChar(s[i])]

\* s[i-1:].startswith(lit), i counted from 1
MatchAt(s, i, lit) ==
  /\ i >= 1
  /\ i + Len(lit) - 1 <= Len(s)
  /\ SubSeq(s, i, i + Len(lit) - 1) = lit

\* lit in s
Contains(s, lit) == \E i \in 1..(Len(s) - Len(lit) + 1) : MatchAt(s, i, lit)

IsWordAt(s, j) == j \in 1..Len(s) /\ s[j] \in WordChars

\* \b between the characters p and p+1 of s (p = 0: before the first)
Boundary(s, p) == IsWordAt(s, p) # IsWordAt(s, p + 1)

\* the number of consecutive characters of s from j on that lie in set
RECURSIVE Run(_, _, _)
Run(s, j, set) ==
  IF j \in 1..Len(s) /\ s[j] \in set THEN 1 + Run(s, j + 1, set) ELSE 0

\* int(digits) for a string of decimal digits
RECURSIVE ParseInt(_)
ParseInt(d) ==
  IF d = <<>> THEN 0
  ELSE 10 * ParseInt(SubSeq(d, 1, Len(d) - 1)) + DigitValue[d[Len(d)]]

\* str.strip()
Strip(s) ==
  LET keep == {i \in 1..Len(s) : s[i] \notin Whitespace}
  IN IF keep = {} THEN <<>>
     ELSE SubSeq(s, CHOOSE i \in keep : \A j \in keep : i <= j,
                    CHOOSE i \in keep : \A j \in keep : i >= j)

\* s.split()[0] for a string that does not start with whitespace
FirstWord(s) == SubSeq(s, 1, Run(s, 1, {s[i] : i \in 1..Len(s)} \ Whitespace))

\* sep.join(parts)
RECURSIVE Join(_, _)
Join(parts, sep) ==
  IF parts = <<>> THEN <<>>
  ELSE IF Len(parts) = 1 THEN parts[1]
  ELSE parts[1] \o sep \o Join(Tail(parts), sep)

Min(S) == CHOOSE x \in S : \A y \in S : x <= y

Max(S) == CHOOSE x \in S : \A y \in S : x >= y

\* ------------------------------------------------------------------------
\* DATA: the required columns
\* ------------------------------------------------------------------------

REQUIRED_COLS == <<"title", "author", "year", "genres", "tropes", "vibes", "heat",
                   "pacing", "format_availability", "ku", "audio", "pages",
                   "content_notes", "comps", "hook_line", "why_readers_might_like">>

\* ------------------------------------------------------------------------
\* PREFS EXTRACTION
\* ------------------------------------------------------------------------

GENRES == << <<"r","o","m","a","n","c","e">>, <<"r","o","m","a","n","t","i","c"," ","s","u","s","p","e","n","s","e">>, <<"c","o","z","y"," ","m","y","s","t","e","r","y">>, <<"m","y","s","t","e","r","y">>,
             <<"t","h","r","i","l","l","e","r">>, <<"f","a","n","t","a","s","y">>, <<"s","c","i","e","n","c","e"," ","f","i","c","t","i","o","n">>, <<"s","c","i","-","f","i">>,
             <<"s","p","a","c","e"," ","o","p","e","r","a">>, <<"h","i","s","t","o","r","i","c","a","l"," ","f","i","c","t","i","o","n">>, <<"w","w","i","i">>,
             <<"w","o","m","e","n","'","s"," ","f","i","c","t","i","o","n">> >>

TROPES == << <<"f","o","u","n","d"," ","f","a","m","i","l","y">>, <<"e","n","e","m","i","e","s"," ","t","o"," ","l","o","v","e","r","s">>, <<"s","l","o","w"," ","b","u","r","n">>,
             <<"g","r","u","m","p","y"," ","s","u","n","s","h","i","n","e">>, <<"h","e","i","s","t">>, <<"f","a","k","e"," ","d","a","t","i","n","g">>, <<"a","m","a","t","e","u","r"," ","s","l","e","u","t","h">>,
             <<"s","e","c","r","e","t"," ","i","d","e","n","t","i","t","y">>, <<"s","e","c","o","n","d"," ","c","h","a","n","c","e">>, <<"d","u","a","l"," ","t","i","m","e","l","i","n","e">>,
             <<"f","o","r","b","i","d","d","e","n"," ","l","o","v","e">>, <<"f","o","r","c","e","d"," ","p","r","o","x","i","m","i","t","y">> >>

VIBES == << <<"h","o","p","e","f","u","l">>, <<"d","a","r","k">>, <<"w","i","t","t","y">>, <<"c","o","z","y">>, <<"b","i","t","t","e","r","s","w","e","e","t">>,
            <<"g","r","i","t","t","y">>, <<"t","e","n","d","e","r">>, <<"a","t","m","o","s","p","h","e","r","i","c">>, <<"h","i","g","h","-","o","c","t","a","n","e">>, <<"e","p","i","c">>,
            <<"s","t","e","a","d","y">>, <<"f","a","s","t">> >>

NOPE_KEYWORDS == << <<"a","n","i","m","a","l"," ","d","e","a","t","h">>, <<"o","n","-","p","a","g","e"," ","s","a">>, <<"s","e","x","u","a","l"," ","a","s","s","a","u","l","t">>,
                    <<"c","h","e","a","t","i","n","g">>, <<"g","r","a","p","h","i","c"," ","v","i","o","l","e","n","c","e">>, <<"g","o","r","e">> >>

\* "WWII historical fiction" if g == "wwii" else g
GenreName(g) == IF g = <<"w","w","i","i">> THEN <<"W","W","I","I"," ","h","i","s","t","o","r","i","c","a","l"," ","f","i","c","t","i","o","n">> ELSE g

\* re.search(r"\b<word>(-|\s)?door\b", low), for <word> = closed, open
DoorRe(low, word) ==
  \E i \in 1..Len(low) : \E sep \in 0..1 :
    /\ Boundary(low, i - 1)
    /\ MatchAt(low, i, word)
    /\ sep = 1 => /\ i + Len(word) <= Len(low)
                  /\ low[i + Len(word)] \in {"-"} \cup Whitespace
    /\ MatchAt(low, i + Len(word) + sep, <<"d","o","o","r">>)
    /\ Boundary(low, i + Len(word) + sep + 3)

\* re.search(r"\bclosed(-|\s)?door\b|clean\b", low)
ClosedRe(low) ==
  \/ DoorRe(low, <<"c","l","o","s","e","d">>)
  \/ \E i \in 1..Len(low) : MatchAt(low, i, <<"c","l","e","a","n">>) /\ Boundary(low, i + 4)

\* re.search(r"\bopen(-|\s)?door\b|spice|steamy|spicy", low)
OpenRe(low) ==
  \/ DoorRe(low, <<"o","p","e","n">>)
  \/ Contains(low, <<"s","p","i","c","e">>)
  \/ Contains(low, <<"s","t","e","a","m","y">>)
  \/ Contains(low, <<"s","p","i","c","y">>)

\* re.search(r"\bku\b", low)
KuRe(low) ==
  \E i \in 1..Len(low) :
    Boundary(low, i - 1) /\ MatchAt(low, i, <<"k","u">>) /\ Boundary(low, i + 1)

PagesMinDigits == 2

PagesMaxDigits == 4

\* r"(?:under|<)\s*(\d{2,4})\s*pages" matched at position i of low: the
\* captured digits, or <<>> when the pattern does not match there.  Between
\* the keyword and "pages" every character is whitespace or a digit, so the
\* greedy \s* and \d{2,4} match in one way only.
PagesGroupAt(low, i) ==
  LET kw == IF MatchAt(low, i, <<"u","n","d","e","r">>) THEN 5
            ELSE IF MatchAt(low, i, <<"<">>) THEN 1 ELSE 0
      d  == i + kw + Run(low, i + kw, Whitespace)
      n  == Run(low, d, DOMAIN DigitValue)
      e  == d + n + Run(low, d + n, Whitespace)
  IN IF kw > 0 /\ n >= PagesMinDigits /\ n <= PagesMaxDigits
          /\ MatchAt(low, e, <<"p","a","g","e","s">>)
     THEN SubSeq(low, d, d + n - 1)
     ELSE <<>>

\* m = re.search(...); int(m.group(1)) if m else None: the leftmost match
MaxPagesOf(low) ==
  LET starts == {i \in 1..Len(low) : PagesGroupAt(low, i) # <<>>}
  IN IF starts = {} THEN NoneVal
     ELSE Some(ParseInt(PagesGroupAt(low, Min(starts))))

CompClass == (WordChars \ {"_"}) \cup {"'", "\"", ":", "-", " "}

CompMinLen == 3

CompMaxLen == 60

\* the length of the longest run of CompClass characters from j, at most 60
CompRun(text, j) ==
  LET n == Run(text, j, CompClass) IN IF n > CompMaxLen THEN CompMaxLen ELSE n

\* r"like\s+([A-Za-z0-9'\":\- ]{3,60})" with re.I matched at position i of
\* text: the numbers j of whitespace characters \s+ may take so that at
\* least 3 characters of the class follow
CompSplitsAt(text, i) ==
  IF MatchAt(Lower(text), i, <<"l","i","k","e">>)
  THEN {j \in 1..Run(text, i + 4, Whitespace) :
          CompRun(text, i + 4 + j) >= CompMinLen}
  ELSE {}

\* m2 = re.search(...); [m2.group(1).strip()] if m2 else []: the leftmost
\* match, \s+ as long as it can be, the group as long as it can be
CompsOf(text) ==
  LET starts == {i \in 1..Len(text) : CompSplitsAt(text, i) # {}}
  IN IF starts = {} THEN <<>>
     ELSE LET i == Min(starts)
              g == i + 4 + Max(CompSplitsAt(text, i))
          IN << Strip(SubSeq(text, g, g + CompRun(text, g) - 1)) >>

\* nope in low or f"no {nope.split()[0]}" in low
NopeHit(low, nope) ==
  Contains(low, nope) \/ Contains(low, <<"n","o"," ">> \o FirstWord(nope))

HeatOf(low) ==
  IF ClosedRe(low) THEN Some(<<"c","l","o","s","e","d">>)
  ELSE IF Contains(low, <<"f","a","d","e"," ","t","o"," ","b","l","a","c","k">>) THEN Some(<<"f","a","d","e">>)
  ELSE IF OpenRe(low) THEN Some(<<"o","p","e","n">>)
  ELSE NoneVal

extract_prefs(text) ==
  LET low == Lower(text)
      In(t) == Contains(low, t)
      Nope(n) == NopeHit(low, n)
      found == SelectSeq(GENRES, In)
  IN [ genres_like |-> [i \in 1..Len(found) |-> GenreName(found[i])],
       tropes      |-> SelectSeq(TROPES, In),
       vibes       |-> SelectSeq(VIBES, In),
       heat        |-> HeatOf(low),
       ku          |-> IF Contains(low, <<"k","i","n","d","l","e"," ","u","n","l","i","m","i","t","e","d">>) \/ KuRe(low)
                       THEN Some(TRUE) ELSE NoneVal,
       audio       |-> IF Contains(low, <<"a","u","d","i","o","b","o","o","k">>) \/ Contains(low, <<"a","u","d","i","o">>)
                       THEN Some(TRUE) ELSE NoneVal,
       hard_nopes  |-> SelectSeq(NOPE_KEYWORDS, Nope),
       max_pages   |-> MaxPagesOf(low),
       comps_like  |-> CompsOf(text) ]

\* ------------------------------------------------------------------------
\* SCORING
\* ------------------------------------------------------------------------

NonEmpty(list) == list # <<>>

\* any(t.lower() in str(cell).lower() for t in terms)
contains_any(cell, terms) ==
  LET c == Lower(cell)
  IN \E i \in 1..Len(terms) : Contains(c, Lower(terms[i]))

\* int(True) = 1, int(False) = 0
BoolInt(b) == IF b THEN 1 ELSE 0

W_GENRE == 3

W_TROPE == 2

W_VIBE == 1

W_HEAT == 1

W_KU == 1

W_AUDIO == 1

W_PAGES == 2

W_NOPE == 4

W_COMP == 2

\* the genre weight added once for every liked genre the row's genres contain
score_row_per_term(row, prefs) ==
  LET hits == {i \in 1..Len(prefs.genres_like) :
                 Contains(Lower(row.genres), Lower(prefs.genres_like[i]))}
      s1 == W_GENRE * Cardinality(hits)
      s2 == IF NonEmpty(prefs.tropes)
            THEN W_TROPE * BoolInt(contains_any(row.tropes, prefs.tropes))
            ELSE 0
      s3 == IF NonEmpty(prefs.vibes)
            THEN W_VIBE * BoolInt(contains_any(row.vibes, prefs.vibes))
            ELSE 0
      s4 == IF prefs.heat # <<>> /\ prefs.heat[1] # <<>>
               /\ Contains(Lower(row.heat), prefs.heat[1])
            THEN W_HEAT ELSE 0
      s5 == IF prefs.ku # <<>> /\ prefs.ku[1] /\ row.ku THEN W_KU ELSE 0
      s6 == IF prefs.audio # <<>> /\ prefs.audio[1] /\ row.audio
            THEN W_AUDIO ELSE 0
      s7 == IF prefs.max_pages # <<>> /\ prefs.max_pages[1] # 0
               /\ row.pages > prefs.max_pages[1]
            THEN 0 - W_PAGES ELSE 0
      s8 == IF NonEmpty(prefs.hard_nopes)
               /\ contains_any(row.content_notes, prefs.hard_nopes)
            THEN 0 - W_NOPE ELSE 0
      s9 == IF NonEmpty(prefs.comps_like)
               /\ contains_any(row.comps, prefs.comps_like)
            THEN W_COMP ELSE 0
  IN s1 + s2 + s3 + s4 + s5 + s6 + s7 + s8 + s9

score_row(row, prefs) ==
  LET s1 == IF NonEmpty(prefs.genres_like)
            THEN W_GENRE * BoolInt(contains_any(row.genres, prefs.genres_like))
            ELSE 0
      s2 == IF NonEmpty(prefs.tropes)
            THEN W_TROPE * BoolInt(contains_any(row.tropes, prefs.tropes))
            ELSE 0
      s3 == IF NonEmpty(prefs.vibes)
            THEN W_VIBE * BoolInt(contains_any(row.vibes, prefs.vibes))
            ELSE 0
      s4 == IF prefs.heat # <<>> /\ prefs.heat[1] # <<>>
               /\ Contains(Lower(row.heat), prefs.heat[1])
            THEN W_HEAT ELSE 0
      s5 == IF prefs.ku # <<>> /\ prefs.ku[1] /\ row.ku THEN W_KU ELSE 0
      s6 == IF prefs.audio # <<>> /\ prefs.audio[1] /\ row.audio
            THEN W_AUDIO ELSE 0
      s7 == IF prefs.max_pages # <<>> /\ prefs.max_pages[1] # 0
               /\ row.pages > prefs.max_pages[1]
            THEN 0 - W_PAGES ELSE 0
      s8 == IF NonEmpty(prefs.hard_nopes)
               /\ contains_any(row.content_notes, prefs.hard_nopes)
            THEN 0 - W_NOPE ELSE 0
      s9 == IF NonEmpty(prefs.comps_like)
               /\ contains_any(row.comps, prefs.comps_like)
            THEN W_COMP ELSE 0
  IN s1 + s2 + s3 + s4 + s5 + s6 + s7 + s8 + s9

\* ------------------------------------------------------------------------
\* DATA: load_books
\*
\* A tabular source is [columns |-> the header, a sequence of names,
\* rows |-> a sequence of functions from the header's names to cells].
\* A DataFrame is [columns, index, rows]: index[i] is the label of rows[i].
\* ------------------------------------------------------------------------

ColumnSet(table) == {table.columns[i] : i \in 1..Len(table.columns)}

\* the cells pd.read_csv reads as missing (its default na_values) and
\* fillna("") then turns into the empty string
NA_VALUES ==
  { <<>>, <<"#","N","/","A">>, <<"#","N","/","A"," ","N","/","A">>, <<"#","N","A">>, <<"-","1",".","#","I","N","D">>, <<"-","1",".","#","Q","N","A","N">>, <<"-","N","a","N">>,
    <<"-","n","a","n">>, <<"1",".","#","I","N","D">>, <<"1",".","#","Q","N","A","N">>, <<"<","N","A",">">>, <<"N","/","A">>, <<"N","A">>, <<"N","U","L","L">>,
    <<"N","a","N">>, <<"N","o","n","e">>, <<"n","/","a">>, <<"n","a","n">>, <<"n","u","l","l">> }

\* pd.read_csv(path, dtype=str).fillna("")
read_csv(table) ==
  [ columns |-> table.columns,
    index   |-> [i \in 1..Len(table.rows) |-> i - 1],
    rows    |-> [i \in 1..Len(table.rows) |->
                  [c \in ColumnSet(table) |->
                    IF table.rows[i][c] \in NA_VALUES THEN <<>>
                    ELSE table.rows[i][c]]] ]

\* [c for c in REQUIRED_COLS if c not in df.columns]
MissingCols(df) ==
  LET Absent(c) == c \notin ColumnSet(df) IN SelectSeq(REQUIRED_COLS, Absent)

TRUE_WORDS == { <<"t","r","u","e">>, <<"1">>, <<"y","e","s">>, <<"y">> }

\* one cell of df[col].str.lower().isin(["true","1","yes","y"])
ParseBool(cell) == Lower(cell) \in TRUE_WORDS

IsDigits(s) == s # <<>> /\ \A i \in 1..Len(s) : s[i] \in DOMAIN DigitValue

INF_WORDS == { <<"i","n","f">>, <<"i","n","f","i","n","i","t","y">> }

\* One cell of pd.to_numeric(df["pages"], errors="coerce"): the number a
\* string parses to, [kind, v] with v the number truncated toward zero;
\* kind "nan" for the empty string, "nan" itself and, by "coerce", a string
\* that is no number.  The forms parsed are a sign, decimal digits, a
\* fraction, and the words inf and infinity in any case.
to_numeric(cell) ==
  LET signed == cell # <<>> /\ cell[1] \in {"+", "-"}
      sign   == IF signed /\ cell[1] = "-" THEN 0 - 1 ELSE 1
      body   == IF signed THEN Tail(cell) ELSE cell
      dots   == {i \in 1..Len(body) : body[i] = "."}
      dot    == IF dots = {} THEN 0 ELSE Min(dots)
      whole  == SubSeq(body, 1, dot - 1)
      frac   == SubSeq(body, dot + 1, Len(body))
  IN IF IsDigits(body) THEN [kind |-> "int", v |-> sign * ParseInt(body)]
     ELSE IF Lower(body) \in INF_WORDS THEN [kind |-> "inf", v |-> sign]
     ELSE IF dot > 0 /\ (whole # <<>> \/ frac # <<>>)
             /\ (whole = <<>> \/ IsDigits(whole))
             /\ (frac = <<>> \/ IsDigits(frac))
          THEN [kind |-> "float", v |-> sign * ParseInt(whole)]
     ELSE [kind |-> "nan", v |-> 0]

\* one value of .fillna(0)
fillna0(x) == IF x.kind = "nan" THEN [kind |-> "float", v |-> 0] ELSE x

\* .astype(int) raises when a value of the column is not finite
AstypeIntRaises(values) == \E i \in 1..Len(values) : values[i].kind = "inf"

\* load_books(path): [err, df], err the exception raised, if any
load_books(table) ==
  LET df      == read_csv(table)
      missing == MissingCols(df)
      pages   == [i \in 1..Len(df.rows) |-> fillna0(to_numeric(df.rows[i]["pages"]))]
  IN IF missing # <<>>
     THEN [err |-> Some([type |-> "ValueError", what |-> "missing required columns",
                         columns |-> missing]),
           df |-> NoneVal]
     ELSE IF AstypeIntRaises(pages)
     THEN [err |-> Some([type |-> "ValueError", what |-> "non-finite to integer",
                         columns |-> <<"pages">>]),
           df |-> NoneVal]
     ELSE [err |-> NoneVal,
           df  |-> Some([df EXCEPT !.rows = [i \in 1..Len(df.rows) |->
                     [df.rows[i] EXCEPT !["ku"]    = ParseBool(@),
                                        !["audio"] = ParseBool(@),
                                        !["pages"] = pages[i].v]]])]

\* ------------------------------------------------------------------------
\* SCORING: pick_books
\* ------------------------------------------------------------------------

\* scored = df, without the copy: `scored` names the catalog itself
df_alias(dfObject, newObject) == dfObject

\* the object `scored` names after scored = df.copy(): a new one
df_copy(dfObject, newObject) == newObject

\* scored["score"] = scored.apply(lambda r: score_row(r, prefs), axis=1)
with_scores(df, prefs) ==
  [ columns |-> IF "score" \in ColumnSet(df) THEN df.columns
                ELSE Append(df.columns, "score"),
    index   |-> df.index,
    rows    |-> [i \in 1..Len(df.rows) |->
                  [c \in ColumnSet(df) \cup {"score"} |->
                    IF c = "score" THEN score_row(df.rows[i], prefs)
                    ELSE df.rows[i][c]]] ]

Orderings(n) == {p \in [1..n -> 1..n] : \A i, j \in 1..n : p[i] = p[j] => i = j}

Reorder(df, p) ==
  [ columns |-> df.columns,
    index   |-> [i \in 1..Len(df.rows) |-> df.index[p[i]]],
    rows    |-> [i \in 1..Len(df.rows) |-> df.rows[p[i]]] ]

\* scored.sort_values("score", ascending=False): kind defaults to
\* "quicksort", which is not stable, so rows of equal score come out in any
\* order
sort_values_desc(df) ==
  { Reorder(df, p) : p \in
      { q \in Orderings(Len(df.rows)) :
          \A i, j \in 1..Len(df.rows) :
            i < j => df.rows[q[i]]["score"] >= df.rows[q[j]]["score"] } }

\* head off by one: the first k + 1 rows
head_one_more(df, k) ==
  LET n == Len(df.rows)
      m == IF k + 1 >= 0 THEN (IF k + 1 < n THEN k + 1 ELSE n)
           ELSE (IF n + k + 1 > 0 THEN n + k + 1 ELSE 0)
  IN [ columns |-> df.columns,
       index   |-> SubSeq(df.index, 1, m),
       rows    |-> SubSeq(df.rows, 1, m) ]

\* df.head(k): the first k rows, or all but the last -k when k < 0
head(df, k) ==
  LET n == Len(df.rows)
      m == IF k >= 0 THEN (IF k < n THEN k ELSE n)
           ELSE (IF n + k > 0 THEN n + k ELSE 0)
  IN [ columns |-> df.columns,
       index   |-> SubSeq(df.index, 1, m),
       rows    |-> SubSeq(df.rows, 1, m) ]

\* best[best["score"] >= 0]: the rows of score 0 kept
nonnegative_only(df) ==
  LET keep == {i \in 1..Len(df.rows) : df.rows[i]["score"] >= 0}
      RECURSIVE Sel(_)
      Sel(i) == IF i > Len(df.rows) THEN <<>>
                 ELSE IF i \in keep THEN <<i>> \o Sel(i + 1) ELSE Sel(i + 1)
      sel == Sel(1)
  IN [ columns |-> df.columns,
       index   |-> [i \in 1..Len(sel) |-> df.index[sel[i]]],
       rows    |-> [i \in 1..Len(sel) |-> df.rows[sel[i]]] ]

\* best[best["score"] > 0]
positive_only(df) ==
  LET keep == {i \in 1..Len(df.rows) : df.rows[i]["score"] > 0}
      RECURSIVE Sel(_)
      Sel(i) == IF i > Len(df.rows) THEN <<>>
                 ELSE IF i \in keep THEN <<i>> \o Sel(i + 1) ELSE Sel(i + 1)
      sel == Sel(1)
  IN [ columns |-> df.columns,
       index   |-> [i \in 1..Len(sel) |-> df.index[sel[i]]],
       rows    |-> [i \in 1..Len(sel) |-> df.rows[sel[i]]] ]

\* pick_books(df, prefs, k): the results the call can return
pick_books(df, prefs, k) ==
  { positive_only(head(sorted, k)) : sorted \in sort_values_desc(with_scores(df, prefs)) }

\* ------------------------------------------------------------------------
\* RENDER
\* ------------------------------------------------------------------------

summarize_prefs(prefs) ==
  LET bits ==
        (IF NonEmpty(prefs.genres_like) THEN << Join(prefs.genres_like, <<","," ">>) >> ELSE <<>>)
     \o (IF NonEmpty(prefs.tropes) THEN << prefs.tropes[1] \o <<" ","t","r","o","p","e">> >> ELSE <<>>)
     \o (IF NonEmpty(prefs.vibes) THEN << prefs.vibes[1] \o <<" ","v","i","b","e">> >> ELSE <<>>)
     \o (IF prefs.heat # <<>> /\ prefs.heat[1] # <<>>
         THEN << prefs.heat[1] \o <<"-","d","o","o","r">> >> ELSE <<>>)
     \o (IF prefs.ku # <<>> /\ prefs.ku[1] THEN << <<"K","U"," ","o","k">> >> ELSE <<>>)
     \o (IF prefs.audio # <<>> /\ prefs.audio[1] THEN << <<"a","u","d","i","o"," ","o","k">> >> ELSE <<>>)
     \o (IF NonEmpty(prefs.hard_nopes)
         THEN << <<"a","v","o","i","d",":"," ">> \o Join(prefs.hard_nopes, <<","," ">>) >> ELSE <<>>)
  IN IF bits # <<>> THEN Join(bits, <<","," ">>) ELSE <<"y","o","u","r"," ","p","r","e","f","e","r","e","n","c","e","s">>

\* one line of render_reply, for the row r of picks; "*" stands for the
\* bullet and "-" for the dash of the source
pick_line(r) ==
  LET why == IF r["why_readers_might_like"] # <<>>
             THEN r["why_readers_might_like"] ELSE r["hook_line"]
      cw  == IF r["content_notes"] # <<>>
             THEN <<" "," ","*","*","C","W",":","*","*"," ">> \o r["content_notes"] ELSE <<>>
  IN <<"*"," ","*","*">> \o r["title"] \o <<"*","*"," ","b","y"," ">> \o r["author"] \o <<" ","-"," ">> \o why \o cw

render_reply(prefs, picks) ==
  Join( << <<"B","a","s","e","d"," ","o","n"," ">> \o summarize_prefs(prefs) \o <<","," ","h","e","r","e"," ","a","r","e"," ","s","o","m","e"," ","p","i","c","k","s",":">> >>
          \o [i \in 1..Len(picks.rows) |-> pick_line(picks.rows[i])]
          \o << <<"\n","W","a","n","t"," ","K","U","-","o","n","l","y"," ","o","r"," ","a","u","d","i","o","-","f","i","r","s","t"," ","o","p","t","i","o","n","s","?"," ","I"," ","c","a","n"," ","s","w","a","p",".">> >>,
        <<"\n">> )

\* ------------------------------------------------------------------------
\* GUARDRAILS
\* ------------------------------------------------------------------------

MAX_POST_AGE_HOURS == 24

SecondsPerHour == 3600

\* is_recent(post): age_hours <= MAX_POST_AGE_HOURS, the age kept in seconds
is_recent(post) == post.age_s <= MAX_POST_AGE_HOURS * SecondsPerHour

\* already_replied(post, my_username): an exception while the comments are
\* fetched or read is swallowed and the answer is False
already_replied(post, my_username) ==
  IF post.comments_raise THEN FALSE
  ELSE \E i \in 1..Len(post.comment_authors) :
         Lower(post.comment_authors[i]) = Lower(my_username)

REQUEST_WORDS == << <<"r","e","c">>, <<"r","e","c","o","m","m","e","n","d">>, <<"s","u","g","g","e","s","t">>, <<"l","o","o","k","i","n","g"," ","f","o","r">>,
                    <<"w","h","a","t"," ","s","h","o","u","l","d"," ","i"," ","r","e","a","d">> >>

\* bool(re.search(r"\b(rec|recommend|suggest|looking for|what should i read)\b", t))
looks_like_request(text) ==
  LET t == Lower(text)
  IN \E i \in 1..Len(t) : \E a \in 1..Len(REQUEST_WORDS) :
       /\ Boundary(t, i - 1)
       /\ MatchAt(t, i, REQUEST_WORDS[a])
       /\ Boundary(t, i + Len(REQUEST_WORDS[a]) - 1)

\* f"{post.title}\n\n{post.selftext or ''}"
post_text(post) == post.title \o <<"\n","\n">> \o post.selftext

\* ------------------------------------------------------------------------
\* CONFIG
\* ------------------------------------------------------------------------

ALLOWED_SUBS == << <<"k","u","b","o","o","k","r","e","c","s">>, <<"b","o","o","k","s">> >>

LIMIT_PER_SUB == 25

MAX_REPLIES_PER_RUN == 3

\* pick_books(df, prefs, k=4), and the k main passes
DEFAULT_K == 4

\* ------------------------------------------------------------------------
\* Inputs: the catalogs, texts and posts the specifications draw from
\* ------------------------------------------------------------------------

RequiredSet == {REQUIRED_COLS[i] : i \in 1..Len(REQUIRED_COLS)}

\* one line of the tabular source, every cell a string
RawBook(title, genres, tropes, vibes, heat, ku, audio, pages, notes, comps) ==
  [c \in RequiredSet |->
     CASE c = "title"   -> title
       [] c = "author"  -> <<"A","."," ","W","r","i","t","e","r">>
       [] c = "year"    -> <<"2","0","2","0">>
       [] c = "genres"  -> genres
       [] c = "tropes"  -> tropes
       [] c = "vibes"   -> vibes
       [] c = "heat"    -> heat
       [] c = "ku"      -> ku
       [] c = "audio"   -> audio
       [] c = "pages"   -> pages
       [] c = "content_notes" -> notes
       [] c = "comps"   -> comps
       [] c = "hook_line" -> <<"A"," ","h","o","o","k",".">>
       [] c = "why_readers_might_like" -> IF ku = <<"y","e","s">> THEN <<"W","h","y",".">> ELSE <<>>
       [] OTHER -> <<>>]

Emberfall == RawBook(<<"E","m","b","e","r","f","a","l","l">>, <<"E","p","i","c"," ","F","a","n","t","a","s","y">>, <<"s","l","o","w"," ","b","u","r","n",","," ","f","o","u","n","d"," ","f","a","m","i","l","y">>,
                     <<"h","o","p","e","f","u","l">>, <<"c","l","o","s","e","d"," ","d","o","o","r">>, <<"y","e","s">>, <<"T","R","U","E">>, <<"2","5","0">>,
                     <<>>, <<"G","i","d","e","o","n"," ","t","h","e"," ","N","i","n","t","h">>)

Ashes == RawBook(<<"A","s","h","e","s">>, <<"f","a","n","t","a","s","y">>, <<>>, <<"d","a","r","k">>, <<"o","p","e","n"," ","d","o","o","r">>, <<"n","o">>,
                 <<"n","o">>, <<"6","0","0">>, <<"g","o","r","e">>, <<>>)

Teacup == RawBook(<<"T","e","a","c","u","p"," ","M","u","r","d","e","r","s">>, <<"C","o","z","y"," ","M","y","s","t","e","r","y">>, <<"a","m","a","t","e","u","r"," ","s","l","e","u","t","h">>,
                  <<"c","o","z","y",","," ","w","i","t","t","y">>, <<"c","l","o","s","e","d"," ","d","o","o","r">>, <<"1">>, <<"n">>, <<"a","b","c">>,
                  <<>>, <<>>)

Starlight == RawBook(<<"S","t","a","r","l","i","g","h","t">>, <<"f","a","n","t","a","s","y"," ","r","o","m","a","n","c","e">>, <<>>, <<>>, <<"f","a","d","e">>,
                     <<"n","o">>, <<"y">>, <<>>, <<>>, <<>>)

RawBooks == << Emberfall, Ashes, Teacup, Starlight >>

\* the longest catalog of the selection specification
MaxCatalog == 3

\* every sequence of at most n elements of the sequence pool
SeqsUpTo(pool, n) ==
  UNION { { [i \in 1..m |-> pool[f[i]]] : f \in [1..m -> 1..Len(pool)] } : m \in 0..n }

TableOf(rows) == [columns |-> REQUIRED_COLS, rows |-> rows]

\* the catalogs load_books returns for the tables of at most MaxCatalog lines
Catalogs ==
  { load_books(TableOf(rows)).df[1] :
      rows \in SeqsUpTo(<<Emberfall, Ashes, Teacup>>, MaxCatalog) }

FullCatalog == load_books(TableOf(RawBooks)).df[1]

EmptyPrefs ==
  [ genres_like |-> <<>>, tropes |-> <<>>, vibes |-> <<>>, heat |-> NoneVal,
    ku |-> NoneVal, audio |-> NoneVal, hard_nopes |-> <<>>, max_pages |-> NoneVal,
    comps_like |-> <<>> ]

NoFrame == [columns |-> <<>>, index |-> <<>>, rows |-> <<>>]

\* ------------------------------------------------------------------------
\* State
\* ------------------------------------------------------------------------

VARIABLES
  table,     \* load: the tabular source given to load_books (<<>>: none yet)
  loaded,    \* load: what load_books returned, <<[err, df]>> (<<>>: not called)
  source,    \* scoring: the text the profile was extracted from
  profile,   \* scoring: the profile score_row is given
  row,       \* scoring: the catalog row score_row is given (<<>>: none yet)
  s,         \* scoring: <<the score score_row returned>>
  before,    \* scoring: <<[row, profile, s]>> of the evaluation before this one
  books,     \* the loaded catalog (<<>>: not loaded)
  stage,     \* cycle c: "off", "idle", "extracted", "picked" or "rendered"
  text,      \* cycle c: the text given to extract_prefs
  prefs,     \* cycle c: the profile extract_prefs returned
  k,         \* cycle c: the k given to pick_books
  scored,    \* cycle c: the DataFrame scored of pick_books, with its score column
  picks,     \* cycle c: the DataFrame pick_books returned
  reply,     \* cycle c: the string render_reply returned
  pc,        \* main: "off", "load", "connect", "listing", "body", "done", "exit"
  me,        \* main: the account name connect() returned
  sub,       \* main: the position in ALLOWED_SUBS of the subreddit being read
  fetched,   \* main: the number of posts the listing of sub has yielded
  post,      \* main: <<the post of this iteration>>
  outcome,   \* main: what the iteration did with post
  replies,   \* main: the counter replies
  attempts,  \* main: <<sub, n>> -> the number of post.reply calls on that post
  examined   \* main: the number of posts whose text was looked at

loadVars  == <<table, loaded>>

scoreVars == <<source, profile, row, s, before>>

cycleVars == <<stage, text, prefs, k, scored, picks, reply>>

mainVars  == <<pc, me, sub, fetched, post, outcome, replies, attempts, examined>>

vars == <<table, loaded, source, profile, row, s, before, books, stage, text, prefs,
          k, scored, picks, reply, pc, me, sub, fetched, post, outcome, replies, attempts,
          examined>>

\* the concurrent cycles of the cycle specification
NumCycles == 2

\* the posts a subreddit holds at most
MaxPosts == 2

\* reddit.subreddit(sub).new(limit=LIMIT_PER_SUB) yields at most this many
ListingLen == IF MaxPosts < LIMIT_PER_SUB THEN MaxPosts ELSE LIMIT_PER_SUB

PostIds == (1..Len(ALLOWED_SUBS)) \X (1..ListingLen)

Cycles == 1..NumCycles

LoadIdle == table = <<>> /\ loaded = <<>>

ScoreIdle ==
  source = NoneVal /\ profile = EmptyPrefs /\ row = <<>> /\ s = <<>> /\ before = <<>>

CyclesAt(st) ==
  /\ stage = [c \in Cycles |-> st]
  /\ text = [c \in Cycles |-> <<>>]
  /\ prefs = [c \in Cycles |-> EmptyPrefs]
  /\ k = [c \in Cycles |-> DEFAULT_K]
  /\ scored = [c \in Cycles |-> NoFrame]
  /\ picks = [c \in Cycles |-> NoFrame]
  /\ reply = [c \in Cycles |-> <<>>]

MainAt(p) ==
  /\ pc = p
  /\ me = <<>>
  /\ sub = 1
  /\ fetched = 0
  /\ post = <<>>
  /\ outcome = "none"
  /\ replies = 0
  /\ attempts = [id \in PostIds |-> 0]
  /\ examined = 0

\* ------------------------------------------------------------------------
\* Loading: load_books on one tabular source
\* ------------------------------------------------------------------------

\* the required columns a header lacks at most
MaxDropped == 2

\* REQUIRED_COLS without the columns of dropped, in their order
HeaderWithout(dropped) ==
  LET Kept(c) == c \notin dropped IN SelectSeq(REQUIRED_COLS, Kept)

\* the cells of the ku and audio columns, each with the boolean the
\* interface description gives it
BoolCells ==
  << [cell |-> <<"t","r","u","e">>, value |-> TRUE],  [cell |-> <<"T","R","U","E">>, value |-> TRUE],
     [cell |-> <<"Y","e","s">>, value |-> TRUE],   [cell |-> <<"y">>, value |-> TRUE],
     [cell |-> <<"1">>, value |-> TRUE],     [cell |-> <<"n","o">>, value |-> FALSE],
     [cell |-> <<>>, value |-> FALSE],     [cell |-> <<"t">>, value |-> FALSE],
     [cell |-> <<"y","e","s"," ">>, value |-> FALSE], [cell |-> <<"0">>, value |-> FALSE] >>

\* the cells of the pages column, each with the page count the interface
\* description gives it: the integer, or 0 when the cell is no integer
PageCells ==
  << [cell |-> <<"2","5","0">>, value |-> 250],    [cell |-> <<"0","0","7">>, value |-> 7],
     [cell |-> <<>>, value |-> 0],         [cell |-> <<"a","b","c">>, value |-> 0],
     [cell |-> <<"1","2","x">>, value |-> 0],      [cell |-> <<"N","a","N">>, value |-> 0],
     [cell |-> <<"-","5">>, value |-> 0 - 5],   [cell |-> <<"i","n","f">>, value |-> 0],
     [cell |-> <<"-","I","n","f","i","n","i","t","y">>, value |-> 0] >>

CellValue(cells, cell) == (CHOOSE e \in {cells[i] : i \in 1..Len(cells)} : e.cell = cell).value

LineWith(ku, audio, pages) ==
  [Emberfall EXCEPT !["ku"] = ku, !["audio"] = audio, !["pages"] = pages]

\* a table restricted to the columns of its header
Restrict(header, rows) ==
  [ columns |-> header,
    rows    |-> [i \in 1..Len(rows) |->
                  [c \in {header[j] : j \in 1..Len(header)} |-> rows[i][c]]] ]

VariedLines ==
  { LineWith(BoolCells[a].cell, BoolCells[b].cell, PageCells[p].cell) :
      a \in 1..Len(BoolCells), b \in {2, 6}, p \in 1..Len(PageCells) }

\* the sources with every required column: no line, one line, two lines
CompleteTables ==
  {TableOf(<<>>)} \cup {TableOf(<<l>>) : l \in VariedLines}
    \cup {TableOf(<<Teacup, l>>) : l \in VariedLines}

\* the sources that lack one to MaxDropped required columns
IncompleteTables ==
  { Restrict(HeaderWithout(d), rows) :
      d \in {x \in SUBSET RequiredSet : Cardinality(x) \in 1..MaxDropped},
      rows \in { <<>>, <<Emberfall>>, <<LineWith(<<"y">>, <<"y">>, <<"i","n","f">>)>> } }

LoadInit ==
  /\ table \in {<<t>> : t \in CompleteTables \cup IncompleteTables}
  /\ loaded = <<>>
  /\ books = <<>>
  /\ ScoreIdle
  /\ CyclesAt("off")
  /\ MainAt("off")

\* books = load_books(CSV_PATH)
Load ==
  /\ table # <<>>
  /\ loaded = <<>>
  /\ loaded' = << load_books(table[1]) >>
  /\ books' = loaded'[1].df
  /\ UNCHANGED <<table, scoreVars, cycleVars, mainVars>>

LoadNext == Load

SpecLoad == LoadInit /\ [][LoadNext]_vars

\* ------------------------------------------------------------------------
\* Scoring: score_row on one row and one profile, then on a row or a
\* profile that differs from it in one field
\* ------------------------------------------------------------------------

\* Texts of requests, each with the max_pages the extraction section gives
\* it (the first "under N pages" or "<N pages" with N of 2 to 4 digits) and
\* whether the text states nothing but a page limit.
ScoreTexts ==
  << [text |-> <<"u","n","d","e","r"," ","3","0","0"," ","p","a","g","e","s">>, max_pages |-> <<300>>, only_pages |-> TRUE],
     [text |-> <<"<","9","9"," ","p","a","g","e","s">>, max_pages |-> <<99>>, only_pages |-> TRUE],
     [text |-> <<"u","n","d","e","r"," ","0","0"," ","p","a","g","e","s">>, max_pages |-> <<0>>, only_pages |-> TRUE],
     [text |-> <<"<","0","0","0","0","p","a","g","e","s">>, max_pages |-> <<0>>, only_pages |-> TRUE],
     [text |-> <<"u","n","d","e","r"," ","0","5","0"," ","p","a","g","e","s">>, max_pages |-> <<50>>, only_pages |-> TRUE],
     [text |-> <<"U","N","D","E","R"," "," ","1","0","0","0","\n","P","A","G","E","S">>, max_pages |-> <<1000>>, only_pages |-> TRUE],
     [text |-> <<"u","n","d","e","r"," ","7"," ","p","a","g","e","s">>, max_pages |-> <<>>, only_pages |-> TRUE],
     [text |-> <<"u","n","d","e","r"," ","1","2","3","4","5"," ","p","a","g","e","s">>, max_pages |-> <<>>, only_pages |-> TRUE],
     [text |-> <<"o","v","e","r"," ","3","0","0"," ","p","a","g","e","s">>, max_pages |-> <<>>, only_pages |-> TRUE],
     [text |-> <<"u","n","d","e","r"," ","7"," ","p","a","g","e","s",","," ","u","n","d","e","r"," ","2","5","0"," ","p","a","g","e","s"," ","o","r"," ","<","9","9"," ","p","a","g","e","s">>,
      max_pages |-> <<250>>, only_pages |-> TRUE],
     [text |-> <<"<","9","9","9","9"," ","p","a","g","e","s",","," ","u","n","d","e","r"," ","1","0","0"," ","p","a","g","e","s">>, max_pages |-> <<9999>>,
      only_pages |-> TRUE],
     [text |-> <<"L","o","o","k","i","n","g"," ","f","o","r"," ","a"," ","s","l","o","w"," ","b","u","r","n"," ","f","a","n","t","a","s","y",","," ","c","l","o","s","e","d"," ","d","o","o","r"," ","p","l","e","a","s","e",","," ","u","n","d","e","r"," ","3","0","0"," ","p","a","g","e","s">>,
      max_pages |-> <<300>>, only_pages |-> FALSE],
     [text |-> <<"R","e","c","s"," ","l","i","k","e"," ","G","i","d","e","o","n"," ","t","h","e"," ","N","i","n","t","h","?"," ","H","o","p","e","f","u","l"," ","s","l","o","w"," ","b","u","r","n"," ","f","a","n","t","a","s","y"," ","r","o","m","a","n","c","e",","," ","c","l","e","a","n",","," ","K","U"," ","o","r"," ","a","u","d","i","o">>,
      max_pages |-> <<>>, only_pages |-> FALSE],
     [text |-> <<"W","W","I","I"," ","m","y","s","t","e","r","y"," ","<","9","9"," ","p","a","g","e","s",","," ","n","o"," ","g","o","r","e",","," ","n","o"," ","c","h","e","a","t","i","n","g">>,
      max_pages |-> <<99>>, only_pages |-> FALSE],
     [text |-> <<"h","e","l","l","o"," ","t","h","e","r","e">>, max_pages |-> <<>>, only_pages |-> FALSE] >>

GenreCells == << <<"E","p","i","c"," ","F","a","n","t","a","s","y",";"," ","R","o","m","a","n","c","e">>, <<"C","o","o","k","b","o","o","k">> >>

TropeCells == << <<"S","l","o","w"," ","B","u","r","n",","," ","f","o","u","n","d"," ","f","a","m","i","l","y">>, <<>> >>

HeatCells == << <<"C","l","o","s","e","d"," ","D","o","o","r">>, <<"o","p","e","n"," ","d","o","o","r">> >>

NoteCells == << <<"G","o","r","e",","," ","c","h","e","a","t","i","n","g">>, <<>> >>

CompCells == << <<"F","o","r"," ","f","a","n","s"," ","o","f"," ","G","I","D","E","O","N"," ","T","H","E"," ","N","I","N","T","H">>, <<>> >>

PageCounts == << 0, 99, 300, 301 >>

\* a row of a loaded catalog: ku and audio booleans, pages an integer
LoadedRow(g, t, h, n, c, p, extras) ==
  [RawBook(<<"A"," ","B","o","o","k">>, GenreCells[g], TropeCells[t],
           IF extras THEN <<"d","a","r","k",","," ","h","o","p","e","f","u","l">> ELSE <<>>,
           HeatCells[h], <<>>, <<>>, <<>>, NoteCells[n], CompCells[c])
     EXCEPT !["ku"] = extras, !["audio"] = extras, !["pages"] = PageCounts[p]]

ScoreRows ==
  { LoadedRow(g, t, h, n, c, p, x) :
      g \in 1..2, t \in 1..2, h \in 1..2, n \in 1..2, c \in 1..2,
      p \in 1..Len(PageCounts), x \in BOOLEAN }

\* the cells a row's genres and content_notes are changed to
CellChanges ==
  { <<"genres", GenreCells[i]>> : i \in 1..2 } \cup
  { <<"content_notes", NoteCells[i]>> : i \in 1..2 }

\* the lists a profile's genres_like and hard_nopes are changed to
ProfileChanges ==
  { <<"genres_like", <<>> >>, <<"genres_like", << <<"f","a","n","t","a","s","y">> >> >>,
    <<"genres_like", << <<"r","o","m","a","n","c","e">>, <<"f","a","n","t","a","s","y">> >> >>,
    <<"hard_nopes", <<>> >>, <<"hard_nopes", << <<"c","h","e","a","t","i","n","g">>, <<"g","o","r","e">> >> >> }

ScoreInit ==
  /\ ScoreIdle
  /\ LoadIdle
  /\ books = <<>>
  /\ CyclesAt("off")
  /\ MainAt("off")

\* prefs = extract_prefs(text)
ScoreExtract ==
  /\ source = NoneVal
  /\ \E i \in 1..Len(ScoreTexts) :
       /\ source' = Some(ScoreTexts[i].text)
       /\ profile' = extract_prefs(ScoreTexts[i].text)
  /\ UNCHANGED <<row, s, before, books, loadVars, cycleVars, mainVars>>

\* score_row(r, prefs)
Score ==
  /\ source # NoneVal
  /\ row = <<>>
  /\ \E r \in ScoreRows :
       /\ row' = <<r>>
       /\ s' = << score_row(r, profile) >>
  /\ UNCHANGED <<source, profile, before, books, loadVars, cycleVars, mainVars>>

\* score_row on the row with one cell changed, against the same profile
ScoreChangedRow ==
  /\ s # <<>>
  /\ before = <<>>
  /\ \E ch \in CellChanges :
       /\ row[1][ch[1]] # ch[2]
       /\ row' = << [row[1] EXCEPT ![ch[1]] = ch[2]] >>
       /\ s' = << score_row(row'[1], profile) >>
  /\ before' = << [row |-> row[1], profile |-> profile, s |-> s[1]] >>
  /\ UNCHANGED <<source, profile, books, loadVars, cycleVars, mainVars>>

\* score_row on the same row, against a profile with one list changed
ScoreChangedProfile ==
  /\ s # <<>>
  /\ before = <<>>
  /\ \E ch \in ProfileChanges :
       /\ profile[ch[1]] # ch[2]
       /\ profile' = [profile EXCEPT ![ch[1]] = ch[2]]
       /\ s' = << score_row(row[1], profile') >>
  /\ before' = << [row |-> row[1], profile |-> profile, s |-> s[1]] >>
  /\ UNCHANGED <<source, row, books, loadVars, cycleVars, mainVars>>

ScoreNext == ScoreExtract \/ Score \/ ScoreChangedRow \/ ScoreChangedProfile

SpecScore == ScoreInit /\ [][ScoreNext]_vars

\* ------------------------------------------------------------------------
\* Cycles: extract_prefs, pick_books, render_reply on one text at a time,
\* by one caller or by several sharing the catalog
\* ------------------------------------------------------------------------

\* a new cycle c starts: prefs = extract_prefs(text)
Extract(c, t) ==
  /\ stage[c] \in {"idle", "rendered"}
  /\ text' = [text EXCEPT ![c] = t]
  /\ prefs' = [prefs EXCEPT ![c] = extract_prefs(t)]
  /\ stage' = [stage EXCEPT ![c] = "extracted"]
  /\ scored' = [scored EXCEPT ![c] = NoFrame]
  /\ picks' = [picks EXCEPT ![c] = NoFrame]
  /\ reply' = [reply EXCEPT ![c] = <<>>]
  /\ UNCHANGED <<k, books, loadVars, scoreVars, mainVars>>

\* The catalog after pick_books(df, prefs, k): the score column is written
\* to the object `scored` names, which changes the catalog if it is the
\* catalog itself.
df_after_pick(df, p) ==
  IF df_copy("df", "scored") = "df" THEN with_scores(df, p) ELSE df

\* picks = pick_books(books, prefs, kk)
Pick(c, kk) ==
  /\ stage[c] = "extracted"
  /\ books' = << df_after_pick(books[1], prefs[c]) >>
  /\ scored' = [scored EXCEPT ![c] = with_scores(books[1], prefs[c])]
  /\ \E result \in pick_books(books[1], prefs[c], kk) :
       picks' = [picks EXCEPT ![c] = result]
  /\ k' = [k EXCEPT ![c] = kk]
  /\ stage' = [stage EXCEPT ![c] = "picked"]
  /\ UNCHANGED <<text, prefs, reply, loadVars, scoreVars, mainVars>>

\* reply = render_reply(prefs, picks)
Render(c) ==
  /\ stage[c] = "picked"
  /\ reply' = [reply EXCEPT ![c] = render_reply(prefs[c], picks[c])]
  /\ stage' = [stage EXCEPT ![c] = "rendered"]
  /\ UNCHANGED <<text, prefs, k, scored, picks, books, loadVars, scoreVars, mainVars>>

\* the largest k of the selection specification
MaxK == 4

PickTexts ==
  { <<"L","o","o","k","i","n","g"," ","f","o","r"," ","a"," ","s","l","o","w"," ","b","u","r","n"," ","f","a","n","t","a","s","y",","," ","c","l","o","s","e","d"," ","d","o","o","r"," ","p","l","e","a","s","e",","," ","u","n","d","e","r"," ","3","0","0"," ","p","a","g","e","s">>,
    <<"F","a","n","t","a","s","y","?">>,
    <<"h","e","l","l","o"," ","t","h","e","r","e">>,
    <<>>,
    <<"A"," ","c","o","z","y"," ","m","y","s","t","e","r","y",","," ","n","o"," ","g","o","r","e">> }

PickInit ==
  /\ books \in {<<b>> : b \in Catalogs}
  /\ stage = [c \in Cycles |-> IF c = 1 THEN "idle" ELSE "off"]
  /\ text = [c \in Cycles |-> <<>>]
  /\ prefs = [c \in Cycles |-> EmptyPrefs]
  /\ k = [c \in Cycles |-> DEFAULT_K]
  /\ scored = [c \in Cycles |-> NoFrame]
  /\ picks = [c \in Cycles |-> NoFrame]
  /\ reply = [c \in Cycles |-> <<>>]
  /\ LoadIdle
  /\ ScoreIdle
  /\ MainAt("off")

PickNext ==
  \/ \E t \in PickTexts : Extract(1, t)
  \/ \E kk \in (0 - 1)..MaxK : Pick(1, kk)
  \/ Render(1)

SpecPick == PickInit /\ [][PickNext]_vars

CycleTexts == { <<"F","a","n","t","a","s","y","?">>, <<"A"," ","c","o","z","y"," ","m","y","s","t","e","r","y",","," ","n","o"," ","g","o","r","e">> }

CycleKs == {1, DEFAULT_K}

CycleInit ==
  /\ books \in { <<FullCatalog>>, <<load_books(TableOf(<<Teacup, Ashes>>)).df[1]>> }
  /\ CyclesAt("idle")
  /\ LoadIdle
  /\ ScoreIdle
  /\ MainAt("off")

CycleNext ==
  \E c \in Cycles :
    \/ \E t \in CycleTexts : Extract(c, t)
    \/ \E kk \in CycleKs : Pick(c, kk)
    \/ Render(c)

SpecCycles == CycleInit /\ [][CycleNext]_vars

\* ------------------------------------------------------------------------
\* MAIN
\* ------------------------------------------------------------------------

USERNAME == <<"A","r","i","j","e","n","n","2","8","9","1">>

Post(title, selftext, age_s, author, comment_authors, comments_raise) ==
  [ title |-> title, selftext |-> selftext, age_s |-> age_s, author |-> author,
    comment_authors |-> comment_authors, comments_raise |-> comments_raise ]

\* The posts a listing can yield, each with what holds of it: the text is a
\* request, the post is at most 24 hours old, the bot wrote it, a comment of
\* the bot was found on it, the catalog FullCatalog has a pick for the text.
Posts ==
  << [ post |-> Post(<<"L","o","o","k","i","n","g"," ","f","o","r"," ","a"," ","s","l","o","w"," ","b","u","r","n"," ","f","a","n","t","a","s","y">>,
                     <<"c","l","o","s","e","d"," ","d","o","o","r"," ","p","l","e","a","s","e",","," ","u","n","d","e","r"," ","3","0","0"," ","p","a","g","e","s">>, SecondsPerHour,
                     <<"r","e","a","d","e","r","4","2">>, << <<"s","o","m","e","o","n","e">> >>, FALSE),
       request |-> TRUE, recent |-> TRUE, own |-> FALSE, found |-> FALSE, pick |-> TRUE ],
     [ post |-> Post(<<"C","a","n"," ","y","o","u"," ","r","e","c","o","m","m","e","n","d"," ","a"," ","c","o","z","y"," ","m","y","s","t","e","r","y","?">>, <<>>, MAX_POST_AGE_HOURS * SecondsPerHour,
                     <<"N","o","n","e">>, <<>>, FALSE),
       request |-> TRUE, recent |-> TRUE, own |-> FALSE, found |-> FALSE, pick |-> TRUE ],
     [ post |-> Post(<<"F","a","n","t","a","s","y"," ","r","e","c","s","?">>, <<"R","e","c","o","m","m","e","n","d","a","t","i","o","n","s"," ","w","e","l","c","o","m","e">>, SecondsPerHour,
                     <<"r","e","a","d","e","r","4","2">>, <<>>, FALSE),
       request |-> FALSE, recent |-> TRUE, own |-> FALSE, found |-> FALSE, pick |-> TRUE ],
     [ post |-> Post(<<"S","u","g","g","e","s","t"," ","a"," ","f","a","n","t","a","s","y">>, <<>>, MAX_POST_AGE_HOURS * SecondsPerHour + 1,
                     <<"r","e","a","d","e","r","4","2">>, <<>>, FALSE),
       request |-> TRUE, recent |-> FALSE, own |-> FALSE, found |-> FALSE, pick |-> TRUE ],
     [ post |-> Post(<<"S","u","g","g","e","s","t"," ","a"," ","f","a","n","t","a","s","y">>, <<>>, SecondsPerHour,
                     <<"A","R","I","J","E","N","N","2","8","9","1">>, <<>>, FALSE),
       request |-> TRUE, recent |-> TRUE, own |-> TRUE, found |-> FALSE, pick |-> TRUE ],
     [ post |-> Post(<<"S","u","g","g","e","s","t"," ","a"," ","f","a","n","t","a","s","y">>, <<>>, SecondsPerHour,
                     <<"r","e","a","d","e","r","4","2">>, << <<"s","o","m","e","o","n","e">>, <<"a","r","i","j","e","n","n","2","8","9","1">> >>, FALSE),
       request |-> TRUE, recent |-> TRUE, own |-> FALSE, found |-> TRUE, pick |-> TRUE ],
     [ post |-> Post(<<"S","u","g","g","e","s","t"," ","a"," ","f","a","n","t","a","s","y">>, <<>>, SecondsPerHour,
                     <<"r","e","a","d","e","r","4","2">>, << <<"A","r","i","j","e","n","n","2","8","9","1">> >>, TRUE),
       request |-> TRUE, recent |-> TRUE, own |-> FALSE, found |-> FALSE, pick |-> TRUE ],
     [ post |-> Post(<<"W","h","a","t"," ","s","h","o","u","l","d"," ","I"," ","r","e","a","d"," ","n","e","x","t","?">>, <<"A","n","y","t","h","i","n","g"," ","g","o","o","d">>, SecondsPerHour,
                     <<"r","e","a","d","e","r","4","2">>, <<>>, FALSE),
       request |-> TRUE, recent |-> TRUE, own |-> FALSE, found |-> FALSE, pick |-> FALSE ],
     [ post |-> Post(<<"M","y"," ","s","h","e","l","f">>, <<"h","e","l","l","o"," ","t","h","e","r","e">>, MAX_POST_AGE_HOURS * SecondsPerHour + 1,
                     <<"a","r","i","j","e","n","n","2","8","9","1">>, << <<"A","r","i","j","e","n","n","2","8","9","1">> >>, FALSE),
       request |-> FALSE, recent |-> FALSE, own |-> TRUE, found |-> TRUE, pick |-> FALSE ] >>

\* the files main can find at CSV_PATH
MainTables ==
  { TableOf(RawBooks),
    TableOf(<<Emberfall, LineWith(<<"y">>, <<"y">>, <<"i","n","f">>)>>),
    Restrict(HeaderWithout({"pages"}), <<Emberfall>>) }

MainInit ==
  /\ table \in {<<t>> : t \in MainTables}
  /\ loaded = <<>>
  /\ books = <<>>
  /\ ScoreIdle
  /\ CyclesAt("off")
  /\ MainAt("load")

\* books = load_books(CSV_PATH): an exception ends the run
MainLoad ==
  /\ pc = "load"
  /\ loaded' = << load_books(table[1]) >>
  /\ books' = loaded'[1].df
  /\ pc' = IF loaded'[1].err # <<>> THEN "exit" ELSE "connect"
  /\ UNCHANGED <<table, me, sub, fetched, post, outcome, replies, attempts, examined,
                 scoreVars, cycleVars>>

\* reddit, me = connect(): SystemExit when a credential is missing
Connect ==
  /\ pc = "connect"
  /\ \E hasCredentials \in BOOLEAN :
       IF hasCredentials
       THEN me' = USERNAME /\ pc' = "listing"
       ELSE me' = me /\ pc' = "exit"
  /\ UNCHANGED <<sub, fetched, post, outcome, replies, attempts, examined, books,
                 loadVars, scoreVars, cycleVars>>

\* for post in reddit.subreddit(sub).new(limit=LIMIT_PER_SUB): the next post
Fetch ==
  /\ pc = "listing"
  /\ fetched < ListingLen
  /\ \E i \in 1..Len(Posts) : post' = << Posts[i].post >>
  /\ fetched' = fetched + 1
  /\ outcome' = "none"
  /\ pc' = "body"
  /\ UNCHANGED <<me, sub, replies, attempts, examined, books, loadVars, scoreVars,
                 cycleVars>>

\* the listing of sub has no further post: the next subreddit, or the end
EndListing ==
  /\ pc = "listing"
  /\ IF sub < Len(ALLOWED_SUBS)
     THEN sub' = sub + 1 /\ fetched' = 0 /\ pc' = "listing"
     ELSE sub' = sub /\ fetched' = fetched /\ pc' = "done"
  /\ UNCHANGED <<me, post, outcome, replies, attempts, examined, books, loadVars,
                 scoreVars, cycleVars>>

\* if replies > MAX_REPLIES_PER_RUN: the cap checked one reply late
cap_reached_late(n) == n > MAX_REPLIES_PER_RUN

\* if replies >= MAX_REPLIES_PER_RUN
cap_reached(n) == n >= MAX_REPLIES_PER_RUN

\* the guards without the is_recent one
guardrails_no_age(p, myName) ==
  IF ~looks_like_request(post_text(p)) THEN "not_request"
  ELSE IF Lower(p.author) = Lower(myName) THEN "self"
  ELSE IF already_replied(p, myName) THEN "already"
  ELSE "go"

\* the four `continue` guards of the loop body, in their order: the guard
\* that skips the post, or "go"
guardrails(p, myName) ==
  IF ~looks_like_request(post_text(p)) THEN "not_request"
  ELSE IF ~is_recent(p) THEN "old"
  ELSE IF Lower(p.author) = Lower(myName) THEN "self"
  ELSE IF already_replied(p, myName) THEN "already"
  ELSE "go"

\* the DataFrames pick_books(books, extract_prefs(text), k=4) can return
post_picks(p) == pick_books(books[1], extract_prefs(post_text(p)), DEFAULT_K)

\* return, at the top of the loop body
CapReturn ==
  /\ pc = "body"
  /\ cap_reached(replies)
  /\ outcome' = "capped"
  /\ pc' = "done"
  /\ UNCHANGED <<me, sub, fetched, post, replies, attempts, examined, books,
                 loadVars, scoreVars, cycleVars>>

\* one of the four guards says continue
Skip ==
  /\ pc = "body"
  /\ ~cap_reached(replies)
  /\ guardrails(post[1], me) # "go"
  /\ outcome' = guardrails(post[1], me)
  /\ examined' = examined + 1
  /\ pc' = "listing"
  /\ UNCHANGED <<me, sub, fetched, post, replies, attempts, books, loadVars,
                 scoreVars, cycleVars>>

\* if picks.empty: continue
NoPicks ==
  /\ pc = "body"
  /\ ~cap_reached(replies)
  /\ guardrails(post[1], me) = "go"
  /\ \E result \in post_picks(post[1]) : result.rows = <<>>
  /\ outcome' = "no_picks"
  /\ examined' = examined + 1
  /\ pc' = "listing"
  /\ books' = << df_after_pick(books[1], extract_prefs(post_text(post[1]))) >>
  /\ UNCHANGED <<me, sub, fetched, post, replies, attempts, loadVars, scoreVars,
                 cycleVars>>

\* post.reply(reply) returns: replies += 1
Reply ==
  /\ pc = "body"
  /\ ~cap_reached(replies)
  /\ guardrails(post[1], me) = "go"
  /\ \E result \in post_picks(post[1]) : result.rows # <<>>
  /\ attempts' = [attempts EXCEPT ![<<sub, fetched>>] = @ + 1]
  /\ replies' = replies + 1
  /\ outcome' = "replied"
  /\ examined' = examined + 1
  /\ pc' = "listing"
  /\ books' = << df_after_pick(books[1], extract_prefs(post_text(post[1]))) >>
  /\ UNCHANGED <<me, sub, fetched, post, loadVars, scoreVars, cycleVars>>

\* post.reply(reply) raises, an APIException or another Exception: the post
\* is skipped
ReplyFails ==
  /\ pc = "body"
  /\ ~cap_reached(replies)
  /\ guardrails(post[1], me) = "go"
  /\ \E result \in post_picks(post[1]) : result.rows # <<>>
  /\ attempts' = [attempts EXCEPT ![<<sub, fetched>>] = @ + 1]
  /\ \E e \in {"api_error", "error"} : outcome' = e
  /\ examined' = examined + 1
  /\ pc' = "listing"
  /\ books' = << df_after_pick(books[1], extract_prefs(post_text(post[1]))) >>
  /\ UNCHANGED <<me, sub, fetched, post, replies, loadVars, scoreVars, cycleVars>>

MainNext ==
  \/ MainLoad
  \/ Connect
  \/ Fetch
  \/ EndListing
  \/ CapReturn
  \/ Skip
  \/ NoPicks
  \/ Reply
  \/ ReplyFails

SpecMain == MainInit /\ [][MainNext]_vars

\* the specification of a whole run
Spec == SpecMain

\* ------------------------------------------------------------------------
\* Properties
\* ------------------------------------------------------------------------

\* the cycles whose pick_books call has returned
PickedCycles == {c \in Cycles : stage[c] \in {"picked", "rendered"}}

ScoresOf(df) == [i \in 1..Len(df.rows) |-> df.rows[i]["score"]]

\* C1: for every k >= 0 pick_books returns at most k rows, every returned
\* row is a row of the scored catalog with a score above 0, and the scores
\* of the returned rows never increase from one row to the next.
C1_TopK ==
  \A c \in PickedCycles :
    LET sc == ScoresOf(picks[c])
        n  == Len(picks[c].rows)
    IN /\ k[c] >= 0 => n <= k[c]
       /\ \A i \in 1..n : sc[i] > 0
       /\ \A i \in 1..n : picks[c].rows[i] = scored[c].rows[picks[c].index[i] + 1]
       /\ \A i, j \in 1..n : i < j => sc[i] >= sc[j]

\* pick_books has cut three rows of positive, differing scores down to two
C1_Witness ==
  /\ stage[1] = "picked"
  /\ k[1] = 2
  /\ Len(books[1].rows) = 3
  /\ \A i \in 1..3 : scored[1].rows[i]["score"] > 0
  /\ Len(picks[1].rows) = 2
  /\ picks[1].rows[1]["score"] > picks[1].rows[2]["score"]

\* C2: rows of equal score are returned in catalog order: of two returned
\* rows of equal score the earlier catalog row comes first, and a catalog
\* row left out by the cut at k while a row of the same score is returned
\* comes later in the catalog than that row.
C2_TiesInCatalogOrder ==
  \A c \in PickedCycles :
    k[c] >= 0 =>
      LET sc == ScoresOf(picks[c])
          n  == Len(picks[c].rows)
          returned == {picks[c].index[i] : i \in 1..n}
      IN /\ \A i, j \in 1..n :
              (i < j /\ sc[i] = sc[j]) => picks[c].index[i] < picks[c].index[j]
         /\ \A i \in 1..n : \A r \in 1..Len(scored[c].rows) :
              (scored[c].index[r] \notin returned
                 /\ scored[c].rows[r]["score"] = sc[i])
                => scored[c].index[r] > picks[c].index[i]

\* C4: from a profile with every field empty every row of the catalog
\* scores 0, pick_books returns no row whatever k is, and the reply begins
\* with "Based on your preferences".
C4_EmptyProfile ==
  \A c \in PickedCycles :
    prefs[c] = EmptyPrefs =>
      /\ \A i \in 1..Len(scored[c].rows) : scored[c].rows[i]["score"] = 0
      /\ picks[c].rows = <<>>
      /\ stage[c] = "rendered" =>
           reply[c] = <<"B","a","s","e","d"," ","o","n"," ","y","o","u","r"," ","p","r","e","f","e","r","e","n","c","e","s",","," ","h","e","r","e"," ","a","r","e"," ","s","o","m","e"," ","p","i","c","k","s",":","\n","\n","W","a","n","t"," ","K","U","-","o","n","l","y"," ","o","r"," ","a","u","d","i","o","-","f","i","r","s","t"," ","o","p","t","i","o","n","s","?"," ","I"," ","c","a","n"," ","s","w","a","p",".">>

\* a text without vocabulary, a catalog of three rows, the reply rendered
C4_Witness ==
  /\ stage[1] = "rendered"
  /\ text[1] = <<"h","e","l","l","o"," ","t","h","e","r","e">>
  /\ prefs[1] = EmptyPrefs
  /\ Len(scored[1].rows) = 3
  /\ k[1] = MaxK
  /\ reply[1] # <<>>

\* ---- load_books --------------------------------------------------------

HeaderSet == {table[1].columns[i] : i \in 1..Len(table[1].columns)}

\* the required columns the header lacks, in the order of REQUIRED_COLS
Lacking ==
  LET Absent(c) == c \notin HeaderSet IN SelectSeq(REQUIRED_COLS, Absent)

\* C5: load_books fails when a required column is absent, with an error
\* that names every absent column, and otherwise never fails: it returns
\* one row per line, pages the integer of the cell or 0 when the cell is no
\* integer, ku and audio true exactly for true, 1, yes, y in any case.
C5_LoadTotalOnCells ==
  loaded # <<>> =>
    IF Lacking # <<>>
    THEN /\ loaded[1].err # <<>>
         /\ loaded[1].err[1].what = "missing required columns"
         /\ loaded[1].err[1].columns = Lacking
    ELSE /\ loaded[1].err = <<>>
         /\ loaded[1].df # <<>>
         /\ Len(loaded[1].df[1].rows) = Len(table[1].rows)
         /\ \A i \in 1..Len(table[1].rows) :
              table[1].rows[i] \in VariedLines =>
                LET in  == table[1].rows[i]
                    out == loaded[1].df[1].rows[i]
                IN /\ out["pages"] = CellValue(PageCells, in["pages"])
                   /\ out["ku"] = CellValue(BoolCells, in["ku"])
                   /\ out["audio"] = CellValue(BoolCells, in["audio"])

\* ---- score_row ---------------------------------------------------------

\* a cell contains, case-insensitively, one of the terms
HasTerm(cell, terms) ==
  \E i \in 1..Len(terms) : Contains(Lower(cell), Lower(terms[i]))

\* the conditions of the weight table, on a row r and a profile p
RuleGenre(r, p) == HasTerm(r["genres"], p.genres_like)

RuleTrope(r, p) == HasTerm(r["tropes"], p.tropes)

RuleVibe(r, p) == HasTerm(r["vibes"], p.vibes)

RuleHeat(r, p) == p.heat # <<>> /\ Contains(Lower(r["heat"]), p.heat[1])

RuleKu(r, p) == p.ku = <<TRUE>> /\ r["ku"]

RuleAudio(r, p) == p.audio = <<TRUE>> /\ r["audio"]

RulePages(r, p) == p.max_pages # <<>> /\ r["pages"] > p.max_pages[1]

RuleNope(r, p) == HasTerm(r["content_notes"], p.hard_nopes)

RuleComp(r, p) == HasTerm(r["comps"], p.comps_like)

\* the outcomes of the rules other than genre and hard exclusion
OtherOutcomes(r, p) ==
  << RuleTrope(r, p), RuleVibe(r, p), RuleHeat(r, p), RuleKu(r, p),
     RuleAudio(r, p), RulePages(r, p), RuleComp(r, p) >>

\* C3: when only the outcome of the genre rule differs between two
\* evaluations the score with the match is higher by exactly 3, and when
\* only the outcome of the hard-exclusion rule differs the score with the
\* match is lower by exactly 4, whatever the other rules give.
C3_GenreAndNopeDeltas ==
  (before # <<>> /\ s # <<>>) =>
    LET r0 == before[1].row
        p0 == before[1].profile
        r1 == row[1]
        p1 == profile
        same == OtherOutcomes(r0, p0) = OtherOutcomes(r1, p1)
        g0 == RuleGenre(r0, p0)
        g1 == RuleGenre(r1, p1)
        n0 == RuleNope(r0, p0)
        n1 == RuleNope(r1, p1)
    IN /\ (same /\ n0 = n1 /\ ~g0 /\ g1) => s[1] = before[1].s + 3
       /\ (same /\ n0 = n1 /\ g0 /\ ~g1) => s[1] = before[1].s - 3
       /\ (same /\ g0 = g1 /\ ~n0 /\ n1) => s[1] = before[1].s - 4
       /\ (same /\ g0 = g1 /\ n0 /\ ~n1) => s[1] = before[1].s + 4

\* the genre rule goes from no match to two matching terms while the page
\* limit and the hard exclusion hold
C3_Witness ==
  /\ before # <<>> /\ s # <<>>
  /\ ~RuleGenre(before[1].row, before[1].profile)
  /\ RuleGenre(row[1], profile)
  /\ Len(profile.genres_like) = 2
  /\ \A i \in 1..2 : Contains(Lower(row[1]["genres"]), profile.genres_like[i])
  /\ RuleNope(row[1], profile) /\ RulePages(row[1], profile)
  /\ s[1] = before[1].s + 3

\* the sum of the weights of the rules of the weight table that hold
TableSum(r, p) ==
    3 * BoolInt(RuleGenre(r, p)) + 2 * BoolInt(RuleTrope(r, p))
  + BoolInt(RuleVibe(r, p)) + BoolInt(RuleHeat(r, p)) + BoolInt(RuleKu(r, p))
  + BoolInt(RuleAudio(r, p)) - 2 * BoolInt(RulePages(r, p))
  - 4 * BoolInt(RuleNope(r, p)) + 2 * BoolInt(RuleComp(r, p))

\* C6: the score is the sum of the nine rules of the weight table, each
\* giving its weight once when it holds and nothing otherwise, and so lies
\* between -6 and 11.
C6_SumOfNineRules ==
  s # <<>> => (s[1] = TableSum(row[1], profile) /\ s[1] \in (0 - 6)..11)

\* what the text of the current profile is annotated with
SourceNote ==
  CHOOSE e \in {ScoreTexts[i] : i \in 1..Len(ScoreTexts)} : e.text = source[1]

\* the sum of the eight rules other than the page limit
SumWithoutPages(r, p) == TableSum(r, p) + 2 * BoolInt(RulePages(r, p))

\* C7: max_pages is the N of the first "under N pages" or "<N pages" of the
\* text whatever digit string of 2 to 4 digits N is, and unset without one;
\* the page limit then takes 2 from the score of every row with more than N
\* pages and nothing from any other score.
C7_PageLimit ==
  source # <<>> =>
    /\ profile.max_pages = SourceNote.max_pages
    /\ s # <<>> =>
         s[1] - SumWithoutPages(row[1], profile)
           = IF SourceNote.max_pages # <<>>
                /\ row[1]["pages"] > SourceNote.max_pages[1]
             THEN 0 - 2 ELSE 0

\* ---- cycles ------------------------------------------------------------

\* C8: no step of any cycle changes the catalog; a cycle's profile and text
\* stay as extraction left them until the cycle ends; a step of one cycle
\* leaves every other cycle's text, profile, picks and reply alone; what
\* pick_books returns is a result of the unmodified catalog, the cycle's own
\* profile and k.
C8_Frame ==
  [][ /\ books' = books
      /\ \A c \in Cycles :
           /\ stage[c] \in {"extracted", "picked"} =>
                (prefs'[c] = prefs[c] /\ text'[c] = text[c])
           /\ stage'[c] = stage[c] =>
                /\ text'[c] = text[c] /\ prefs'[c] = prefs[c]
                /\ k'[c] = k[c] /\ scored'[c] = scored[c]
                /\ picks'[c] = picks[c] /\ reply'[c] = reply[c]
           /\ (stage[c] = "extracted" /\ stage'[c] = "picked") =>
                /\ prefs[c] = extract_prefs(text[c])
                /\ picks'[c] \in pick_books(books[1], prefs[c], k'[c])
                /\ "score" \notin ColumnSet(books'[1])
    ]_vars

\* two cycles on different texts are in flight over the same catalog, one
\* with its picks made and the other with its reply rendered
C8_Witness ==
  /\ stage[1] = "picked" /\ stage[2] = "rendered"
  /\ text[1] # text[2]
  /\ picks[1].rows # <<>> /\ picks[2].rows # <<>>
  /\ "score" \in ColumnSet(scored[1])
  /\ "score" \notin ColumnSet(books[1])

\* ---- main --------------------------------------------------------------

Attempted == {"replied", "api_error", "error"}

\* C9: replies never exceeds MAX_REPLIES_PER_RUN; it changes only by one,
\* when a reply call returns; a reply call that raises leaves it as it was
\* and the run goes on to the next post; once it has reached the cap no
\* further post is examined or replied to.
C9_ReplyCap ==
  [][ /\ replies <= MAX_REPLIES_PER_RUN /\ replies' <= MAX_REPLIES_PER_RUN
      /\ replies' # replies =>
           /\ replies' = replies + 1
           /\ outcome' = "replied"
           /\ attempts'[<<sub, fetched>>] = attempts[<<sub, fetched>>] + 1
      /\ (attempts' # attempts /\ outcome' # "replied") =>
           (replies' = replies /\ pc' = "listing")
      /\ replies >= MAX_REPLIES_PER_RUN =>
           (examined' = examined /\ attempts' = attempts /\ replies' = replies)
    ]_vars

\* three posts were examined and replied to, and the run returned at the
\* fourth without examining it
C9_Witness ==
  /\ replies = MAX_REPLIES_PER_RUN
  /\ outcome = "capped"
  /\ pc = "done"
  /\ \E id \in PostIds : attempts[id] = 0
  /\ examined = MAX_REPLIES_PER_RUN

\* what the post of this iteration is annotated with
PostNote == CHOOSE e \in {Posts[i] : i \in 1..Len(Posts)} : e.post = post[1]

\* C10: a reply is attempted on a post only if its text is a request, it is
\* recent, the bot did not write it, no comment of the bot was found on it
\* and the catalog has a pick for it; no post is attempted twice.
C10_Guardrails ==
  /\ \A id \in PostIds : attempts[id] <= 1
  /\ (post # <<>> /\ outcome \in Attempted) =>
       /\ PostNote.request /\ PostNote.recent /\ ~PostNote.own
       /\ ~PostNote.found /\ PostNote.pick
  /\ (post # <<>> /\ fetched >= 1 /\ attempts[<<sub, fetched>>] > 0)
       => outcome \in Attempted

\* a post of exactly the oldest age allowed was replied to after a post
\* whose reply call raised
C10_Witness ==
  /\ post # <<>>
  /\ outcome = "replied"
  /\ post[1].age_s = MAX_POST_AGE_HOURS * SecondsPerHour
  /\ replies = 1
  /\ \E id \in PostIds : id # <<sub, fetched>> /\ attempts[id] = 1

=============================================================================
